---------------------------- MODULE Spec2Model ----------------------------
(***************************************************************************)
(* The fixed-size worker pool of assignments/05-concurrency                *)
(* (src/thread_pool.rs) and the parallel merge sort built on it            *)
(* (src/main.rs).                                                          *)
(*                                                                         *)
(* Two state machines share the pool and its workers:                      *)
(*   Spec      a single owner thread that uses the pool's operations in    *)
(*             any order (new, execute, get_results, recv_result, the      *)
(*             sender replacement of test_dropped_sender, drop);           *)
(*   SortSpec  the driver parallel_merge_sort.                             *)
(* FairSpec and FairSortSpec add the fairness of OS-scheduled threads.     *)
(***************************************************************************)
EXTENDS Integers, Sequences, FiniteSets, TLC

\* ------------------------------------------------------------------ bounds
MaxThreads == 2
MaxJobs == 2
MaxLen == 3
MaxChunk == 2
MaxElem == 2

Workers == 1..MaxThreads

\* --------------------------------------------------------------- variables
VARIABLES
    cpc,              \* position of the thread that owns the pool
    op,               \* the pool operation the owner called last
    ret,              \* what that operation returned
    job_sender,       \* ThreadPool.job_sender: "Some", "None", or "Dummy"
    result_receiver,  \* ThreadPool.result_receiver: "alive" or "dropped"
    threads,          \* ThreadPool.threads: the join handles, in spawn order
    job_queue,        \* the jobs buffered in the job channel
    result_queue,     \* the outcomes buffered in the result channel
    lock,             \* holder of the Mutex around job_receiver (0: free)
    wpc,              \* each worker thread's position
    wjob,             \* the job each worker took and has not answered yet
    results,          \* get_results' local Vec
    submitted,        \* history: body of every job that entered the queue
    claimed,          \* history: per job, how many times it was dequeued
    sent,             \* history: per job, how many outcomes were sent for it
    taken,            \* history: outcomes the owner took off the channel
    snapshot,         \* history: result channel when get_results was called
    drained,          \* history: outcomes this get_results call took so far
    data,             \* parallel_merge_sort: the input slice
    chunk_size,       \* parallel_merge_sort: chunk_size
    num_threads,      \* parallel_merge_sort: num_threads
    chunks,           \* parallel_merge_sort: chunks still to submit
    num_chunks,       \* parallel_merge_sort: num_chunks
    sorted_chunks,    \* parallel_merge_sort: sorted_chunks
    remaining_chunks, \* parallel_merge_sort: remaining_chunks
    num_pairs,        \* parallel_merge_sort: num_pairs
    todo,             \* parallel_merge_sort: iterations left in the current for loop
    round,            \* history: 0 in the sort round, r in the r-th merge round
    received,         \* history: the jobs in the order the driver received their outcomes
    output,           \* parallel_merge_sort: the returned Vec
    stdout,           \* the process's standard output: "ok", or "failing" (writes fail)
    poisoned,         \* whether the Mutex around job_receiver is poisoned
    merge_left,       \* merge: the slice `left`
    merge_right,      \* merge: the slice `right`
    left_iter,        \* merge: what left_iter has still to yield
    right_iter,       \* merge: what right_iter has still to yield
    result,           \* merge: result
    sort_arr,         \* merge_sort: the slice `arr`
    sort_arr_before   \* history: that slice when merge_sort was called

poolVars == <<job_sender, result_receiver, threads, job_queue, result_queue,
              lock, wpc, wjob>>
histVars == <<submitted, claimed, sent, taken, snapshot, drained>>
sortVars == <<data, chunk_size, num_threads, chunks, num_chunks, sorted_chunks,
              remaining_chunks, num_pairs, todo, round, received, output>>
ownerVars == <<cpc, op, ret, results>>
fnVars == <<merge_left, merge_right, left_iter, right_iter, result, sort_arr,
            sort_arr_before>>
vars == <<ownerVars, poolVars, histVars, sortVars, stdout, poisoned, fnVars>>

\* ------------------------------------------------------- values and errors
\* error.rs: the variants of ThreadPoolError the pool produces
ZeroThreads == [tag |-> "Err", kind |-> "ZeroThreads", msg |-> ""]
SendError == [tag |-> "Err", kind |-> "SendError", msg |-> ""]
ThreadPanic(m) == [tag |-> "Err", kind |-> "ThreadPanic", msg |-> m]
ReceiveError == [tag |-> "Err", kind |-> "ReceiveError", msg |-> "Failed to receive result"]
\* Ok(()) of new and execute, Ok(value) of a job, Ok(Vec) of get_results
OkUnit == [tag |-> "Ok"]
Ok(v) == [tag |-> "Ok", val |-> v]
OkList(l) == [tag |-> "Ok", list |-> l]
None == [tag |-> "None"]

\* ------------------------------------------------ the sequential primitives
\* a merge that forgets what is left of `right` when `left` runs out first
RECURSIVE merge_LosesRightTail(_, _)
merge_LosesRightTail(left, right) ==
    IF left # <<>> /\ right # <<>>
    THEN IF Head(left) <= Head(right)
         THEN <<Head(left)>> \o merge_LosesRightTail(Tail(left), right)
         ELSE <<Head(right)>> \o merge_LosesRightTail(left, Tail(right))
    ELSE left

\* a merge that takes `left` whole and then `right`
merge_Concat(left, right) == left \o right

\* a merge that emits one element for two equal heads
RECURSIVE merge_Dedup(_, _)
merge_Dedup(left, right) ==
    IF left # <<>> /\ right # <<>>
    THEN IF Head(left) < Head(right)
         THEN <<Head(left)>> \o merge_Dedup(Tail(left), right)
         ELSE IF Head(left) > Head(right)
              THEN <<Head(right)>> \o merge_Dedup(left, Tail(right))
              ELSE <<Head(left)>> \o merge_Dedup(Tail(left), Tail(right))
    ELSE left \o right

\* main.rs merge: take from left while left.peek() <= right.peek()
RECURSIVE merge(_, _)
merge(left, right) ==
    IF left # <<>> /\ right # <<>>
    THEN IF Head(left) <= Head(right)
         THEN <<Head(left)>> \o merge(Tail(left), right)
         ELSE <<Head(right)>> \o merge(left, Tail(right))
    ELSE left \o right

RECURSIVE merge_sort(_)
\* a merge_sort that leaves the right half as it is
merge_sort_SkipRight(arr) ==
    IF Len(arr) <= 1
    THEN arr
    ELSE LET mid == Len(arr) \div 2
             left == merge_sort(SubSeq(arr, 1, mid))
             right == SubSeq(arr, mid + 1, Len(arr))
         IN  merge(left, right)

\* main.rs merge_sort: split at len / 2, sort both halves, merge
merge_sort(arr) ==
    IF Len(arr) <= 1
    THEN arr
    ELSE LET mid == Len(arr) \div 2
             left == SubSeq(arr, 1, mid)
             right == SubSeq(arr, mid + 1, Len(arr))
         IN  merge(merge_sort(left), merge_sort(right))

\* ------------------------------------------------------------------- jobs
\* The closures handed to execute() in the tests and by parallel_merge_sort.
Ret(v) == [kind |-> "ret", val |-> v]
Panic(p) == [kind |-> "panic", payload |-> p]
SortJob(c) == [kind |-> "sort", chunk |-> c]
MergeJob(l, r) == [kind |-> "merge", left |-> l, right |-> r]

Payloads == {[type |-> "&str", text |-> "boom"],
             [type |-> "String", text |-> "boom"],
             [type |-> "other", text |-> ""]}

\* what the i-th job may be: `move || i` of test_multiple_tasks, or a panic
Bodies(i) == {Ret(i)} \cup {Panic(p) : p \in Payloads}

\* a conversion that knows only the string-literal payload
panic_info_StrOnly(e) ==
    IF e.type = "&str" THEN e.text
    ELSE "Unknown panic"

\* thread_pool.rs 52-58: the panic payload converted to the message
panic_info(e) ==
    IF e.type = "&str" THEN e.text
    ELSE IF e.type = "String" THEN e.text
    ELSE "Unknown panic"

\* main.rs 58-62, 92-97: the println! that opens the sort and merge closures
\* panics with a String payload when the write to stdout fails
PrintFailed == [type |-> "String", text |-> "failed printing to stdout"]

\* thread_pool.rs 46-62: catch_unwind(job) and the outcome built from it
RunJob(body) ==
    CASE body.kind = "ret" -> Ok(body.val)
      [] body.kind = "panic" -> ThreadPanic(panic_info(body.payload))
      [] body.kind = "sort" ->
            IF stdout = "ok"
            THEN Ok(merge_sort(body.chunk))
            ELSE ThreadPanic(panic_info(PrintFailed))
      [] body.kind = "merge" ->
            IF stdout = "ok"
            THEN Ok(merge(body.left, body.right))
            ELSE ThreadPanic(panic_info(PrintFailed))

\* ---------------------------------------------------------------- channels
\* mpsc: the job channel reports disconnection once its Sender is gone
JobChannelClosed == job_sender # "Some"

Spawned == {w \in Workers : wpc[w] # "unspawned"}
Live == {w \in Workers : wpc[w] \in {"idle", "locked", "exec"}}

\* thread_pool.rs 27, 32: the job receiver sits in an Arc; new() drops its own
\* handle on return and each worker closure holds a clone, so the receiver
\* lives as long as one worker thread does
JobReceiverAlive == Live # {}

\* mpsc: the result channel is disconnected once every clone of result_sender
\* is gone; each worker closure owns one clone, the original dies with new()
ResultChannelDisconnected == Live = {}

\* --------------------------------------------------------- pool operations
\* new() without the num_threads == 0 check
new_NoZeroCheck(n) ==
    /\ ret' = OkUnit
    /\ job_sender' = "Some"
    /\ result_receiver' = "alive"
    /\ threads' = [i \in 1..n |-> i]
    /\ wpc' = [w \in Workers |-> IF w <= n THEN "idle" ELSE "unspawned"]
    /\ UNCHANGED <<job_queue, result_queue, lock, wjob>>

\* ThreadPool::new
new(n) ==
    IF n = 0
    THEN /\ ret' = ZeroThreads
         /\ UNCHANGED poolVars
    ELSE /\ ret' = OkUnit
         /\ job_sender' = "Some"
         /\ result_receiver' = "alive"
         /\ threads' = [i \in 1..n |-> i]
         /\ wpc' = [w \in Workers |-> IF w <= n THEN "idle" ELSE "unspawned"]
         /\ UNCHANGED <<job_queue, result_queue, lock, wjob>>

\* mpsc Sender::send on the job channel, as execute() uses it
SendJob(f) ==
    /\ job_queue' = Append(job_queue, [id |-> Len(submitted) + 1, body |-> f])
    /\ submitted' = Append(submitted, f)
    /\ claimed' = Append(claimed, 0)
    /\ sent' = Append(sent, 0)

\* execute() that ignores the failure of send()
execute_IgnoreSendFailure(f) ==
    IF job_sender # "None"
    THEN /\ SendJob(f)
         /\ ret' = OkUnit
    ELSE /\ ret' = SendError
         /\ UNCHANGED <<job_queue, submitted, claimed, sent>>

\* ThreadPool::execute: send() fails when the sender's channel has no receiver
execute(f) ==
    IF job_sender = "Some" /\ JobReceiverAlive
    THEN /\ SendJob(f)
         /\ ret' = OkUnit
    ELSE /\ ret' = SendError
         /\ UNCHANGED <<job_queue, submitted, claimed, sent>>

\* recv_result that reports the disconnection before it looks at the buffer
recv_result_ErrorFirst ==
    IF Live = {}
    THEN /\ ret' = ReceiveError
         /\ UNCHANGED <<result_queue, taken>>
    ELSE /\ result_queue # <<>>
         /\ ret' = Head(result_queue).res
         /\ result_queue' = Tail(result_queue)
         /\ taken' = taken + 1

\* recv_result built on try_recv(): an empty channel is an error at once
recv_result_TryRecv ==
    IF result_queue # <<>>
    THEN /\ ret' = Head(result_queue).res
         /\ result_queue' = Tail(result_queue)
         /\ taken' = taken + 1
    ELSE /\ ret' = ReceiveError
         /\ UNCHANGED <<result_queue, taken>>

\* ThreadPool::recv_result, once result_receiver.recv() returns
recv_result ==
    IF result_queue # <<>>
    THEN /\ ret' = Head(result_queue).res
         /\ result_queue' = Tail(result_queue)
         /\ taken' = taken + 1
    ELSE /\ ResultChannelDisconnected
         /\ ret' = ReceiveError
         /\ UNCHANGED <<result_queue, taken>>

\* ----------------------------------------------------------------- workers
\* thread_pool.rs 39: job_receiver.lock().unwrap(); the unwrap panics when the
\* Mutex is poisoned
Lock(w) ==
    /\ UNCHANGED <<stdout, poisoned, fnVars>>
    /\ wpc[w] = "idle"
    /\ IF poisoned
       THEN /\ wpc' = [wpc EXCEPT ![w] = "panicked"]
            /\ UNCHANGED lock
       ELSE /\ lock = 0
            /\ lock' = w
            /\ wpc' = [wpc EXCEPT ![w] = "locked"]
    /\ UNCHANGED <<ownerVars, job_sender, result_receiver, threads,
                   job_queue, result_queue, wjob, histVars, sortVars>>

\* a receive that hands out the oldest job and leaves it in the queue
TakeJob_Peek(w) ==
    /\ wjob' = [wjob EXCEPT ![w] = Head(job_queue)]
    /\ job_queue' = job_queue
    /\ claimed' = [claimed EXCEPT ![Head(job_queue).id] = @ + 1]

\* mpsc Receiver::recv of a buffered job: the job leaves the queue
TakeJob(w) ==
    /\ wjob' = [wjob EXCEPT ![w] = Head(job_queue)]
    /\ job_queue' = Tail(job_queue)
    /\ claimed' = [claimed EXCEPT ![Head(job_queue).id] = @ + 1]

\* the guard kept in a binding that outlives the block: the lock stays with the
\* worker while it runs the job
Release_Keep(w) == w

\* the Mutex after the guard `receiver` goes out of scope
Release(w) == 0

\* a worker that looks at the closure of the channel before it looks at the
\* buffer: the jobs still queued at shutdown are left behind
Recv_ExitOnClose(w) ==
    /\ UNCHANGED <<stdout, poisoned, fnVars>>
    /\ wpc[w] = "locked"
    /\ IF JobChannelClosed
       THEN /\ wpc' = [wpc EXCEPT ![w] = "exited"]
            /\ UNCHANGED <<wjob, job_queue, claimed>>
       ELSE /\ job_queue # <<>>
            /\ TakeJob(w)
            /\ wpc' = [wpc EXCEPT ![w] = "exec"]
    /\ lock' = Release(w)
    /\ UNCHANGED <<ownerVars, job_sender, result_receiver, threads,
                   result_queue, submitted, sent, taken, snapshot, drained, sortVars>>

\* a worker that polls the job channel and ends when it finds it empty
Recv_TryRecv(w) ==
    /\ UNCHANGED <<stdout, poisoned, fnVars>>
    /\ wpc[w] = "locked"
    /\ IF job_queue # <<>>
       THEN /\ TakeJob(w)
            /\ wpc' = [wpc EXCEPT ![w] = "exec"]
       ELSE /\ wpc' = [wpc EXCEPT ![w] = "exited"]
            /\ UNCHANGED <<wjob, job_queue, claimed>>
    /\ lock' = Release(w)
    /\ UNCHANGED <<ownerVars, job_sender, result_receiver, threads,
                   result_queue, submitted, sent, taken, snapshot, drained, sortVars>>

\* thread_pool.rs 40-42, 65-71: receiver.recv() blocks while the queue is empty
\* and open; when it returns, the guard is dropped at the end of the block, a
\* job goes on to run, and Err(_) breaks the loop and ends the thread
Recv(w) ==
    /\ UNCHANGED <<stdout, poisoned, fnVars>>
    /\ wpc[w] = "locked"
    /\ IF job_queue # <<>>
       THEN /\ TakeJob(w)
            /\ wpc' = [wpc EXCEPT ![w] = "exec"]
       ELSE /\ JobChannelClosed
            /\ wpc' = [wpc EXCEPT ![w] = "exited"]
            /\ UNCHANGED <<wjob, job_queue, claimed>>
    /\ lock' = Release(w)
    /\ UNCHANGED <<ownerVars, job_sender, result_receiver, threads,
                   result_queue, submitted, sent, taken, snapshot, drained, sortVars>>

\* a worker that reports only the jobs that returned a value
SendResult_OkOnly(w) ==
    IF RunJob(wjob[w].body).tag = "Ok"
    THEN /\ result_queue' = Append(result_queue,
                                   [id |-> wjob[w].id, res |-> RunJob(wjob[w].body)])
         /\ sent' = [sent EXCEPT ![wjob[w].id] = @ + 1]
    ELSE UNCHANGED <<result_queue, sent>>

\* a worker that sends the outcome in the match arm and once more after it
SendResult_Twice(w) ==
    /\ result_queue' = result_queue \o
                           <<[id |-> wjob[w].id, res |-> RunJob(wjob[w].body)],
                             [id |-> wjob[w].id, res |-> RunJob(wjob[w].body)]>>
    /\ sent' = [sent EXCEPT ![wjob[w].id] = @ + 2]

\* thread_pool.rs 49, 59-61: result_sender.send(outcome)
SendResult(w) ==
    /\ result_queue' = Append(result_queue,
                              [id |-> wjob[w].id, res |-> RunJob(wjob[w].body)])
    /\ sent' = [sent EXCEPT ![wjob[w].id] = @ + 1]

\* the job run without catch_unwind: its panic kills the worker thread
Exec_NoCatch(w) ==
    /\ UNCHANGED <<stdout, fnVars>>
    /\ wpc[w] = "exec"
    /\ IF result_receiver = "alive" /\ wjob[w].body.kind # "panic"
       THEN /\ SendResult(w)
            /\ wpc' = [wpc EXCEPT ![w] = "idle"]
       ELSE /\ wpc' = [wpc EXCEPT ![w] = "panicked"]
            /\ UNCHANGED <<result_queue, sent>>
    /\ wjob' = [wjob EXCEPT ![w] = None]
    /\ UNCHANGED <<ownerVars, job_sender, result_receiver, threads,
                   job_queue, lock, submitted, claimed, taken, snapshot, drained,
                   sortVars>>
    /\ poisoned' = (poisoned \/ (wpc'[w] = "panicked" /\ lock = w))

\* a worker that takes the job lock again to send its outcome
Exec_UnderLock(w) ==
    /\ UNCHANGED <<stdout, fnVars>>
    /\ wpc[w] = "exec"
    /\ lock = 0
    /\ IF result_receiver = "alive"
       THEN /\ SendResult(w)
            /\ wpc' = [wpc EXCEPT ![w] = "idle"]
       ELSE /\ wpc' = [wpc EXCEPT ![w] = "panicked"]
            /\ UNCHANGED <<result_queue, sent>>
    /\ wjob' = [wjob EXCEPT ![w] = None]
    /\ UNCHANGED <<ownerVars, job_sender, result_receiver, threads,
                   job_queue, lock, submitted, claimed, taken, snapshot, drained,
                   sortVars>>
    /\ poisoned' = (poisoned \/ (wpc'[w] = "panicked" /\ lock = w))

\* a worker that leaves its loop after it has reported a panicking job
Exec_ExitOnFailure(w) ==
    /\ UNCHANGED <<stdout, fnVars>>
    /\ wpc[w] = "exec"
    /\ IF result_receiver = "alive"
       THEN /\ SendResult(w)
            /\ wpc' = [wpc EXCEPT ![w] = IF RunJob(wjob[w].body).tag = "Ok"
                                         THEN "idle" ELSE "exited"]
       ELSE /\ wpc' = [wpc EXCEPT ![w] = "panicked"]
            /\ UNCHANGED <<result_queue, sent>>
    /\ wjob' = [wjob EXCEPT ![w] = None]
    /\ UNCHANGED <<ownerVars, job_sender, result_receiver, threads,
                   job_queue, lock, submitted, claimed, taken, snapshot, drained,
                   sortVars>>
    /\ poisoned' = (poisoned \/ (wpc'[w] = "panicked" /\ lock = w))

\* a worker that serves one job and ends: its thread is not reused
Exec_OneShot(w) ==
    /\ UNCHANGED <<stdout, fnVars>>
    /\ wpc[w] = "exec"
    /\ IF result_receiver = "alive"
       THEN /\ SendResult(w)
            /\ wpc' = [wpc EXCEPT ![w] = "exited"]
       ELSE /\ wpc' = [wpc EXCEPT ![w] = "panicked"]
            /\ UNCHANGED <<result_queue, sent>>
    /\ wjob' = [wjob EXCEPT ![w] = None]
    /\ UNCHANGED <<ownerVars, job_sender, result_receiver, threads,
                   job_queue, lock, submitted, claimed, taken, snapshot, drained,
                   sortVars>>
    /\ poisoned' = (poisoned \/ (wpc'[w] = "panicked" /\ lock = w))

\* thread_pool.rs 43-64: run the job under catch_unwind and send its outcome;
\* the unwrap() panics the worker when the result receiver is gone
Exec(w) ==
    /\ UNCHANGED <<stdout, fnVars>>
    /\ wpc[w] = "exec"
    /\ IF result_receiver = "alive"
       THEN /\ SendResult(w)
            /\ wpc' = [wpc EXCEPT ![w] = "idle"]
       ELSE /\ wpc' = [wpc EXCEPT ![w] = "panicked"]
            /\ UNCHANGED <<result_queue, sent>>
    /\ wjob' = [wjob EXCEPT ![w] = None]
    /\ UNCHANGED <<ownerVars, job_sender, result_receiver, threads,
                   job_queue, lock, submitted, claimed, taken, snapshot, drained, sortVars>>
    /\ poisoned' = (poisoned \/ (wpc'[w] = "panicked" /\ lock = w))

Worker(w) == Lock(w) \/ Recv(w) \/ Exec(w)

\* --------------------------------------------------- the owner of the pool
\* ThreadPool::new(n) called by the owner (test_threadpool_creation)
New ==
    /\ UNCHANGED <<stdout, poisoned, fnVars>>
    /\ cpc = "init"
    /\ \E n \in 0..MaxThreads :
          /\ new(n)
          /\ num_threads' = n
    /\ op' = "new"
    /\ cpc' = IF ret'.tag = "Ok" THEN "ready" ELSE "failed"
    /\ UNCHANGED <<results, histVars, data, chunk_size, chunks, num_chunks,
                   sorted_chunks, remaining_chunks, num_pairs, todo, round, received, output>>

\* pool.execute(f); only the jobs that enter the queue are counted against MaxJobs
Execute ==
    /\ UNCHANGED <<stdout, poisoned, fnVars>>
    /\ cpc = "ready"
    /\ job_sender = "Some" => Len(submitted) < MaxJobs
    /\ \E f \in Bodies(Len(submitted) + 1) : execute(f)
    /\ op' = "execute"
    /\ UNCHANGED <<cpc, results, job_sender, result_receiver, threads,
                   result_queue, lock, wpc, wjob, taken, snapshot, drained, sortVars>>

\* thread_pool.rs 103: get_results entered, results = Vec::new()
GetResultsCall ==
    /\ UNCHANGED <<stdout, poisoned, fnVars>>
    /\ cpc = "ready"
    /\ cpc' = "get_results"
    /\ op' = "get_results"
    /\ results' = <<>>
    /\ snapshot' = result_queue
    /\ drained' = <<>>
    /\ UNCHANGED <<ret, poolVars, submitted, claimed, sent, taken, sortVars>>

\* mpsc try_iter().next(): the oldest buffered outcome leaves the channel
TryRecv ==
    /\ result_queue' = Tail(result_queue)
    /\ taken' = taken + 1

\* a drain that skips a failure outcome and goes on
get_results_step_SkipFailure ==
    IF result_queue # <<>>
    THEN /\ TryRecv
         /\ IF Head(result_queue).res.tag = "Ok"
            THEN /\ results' = Append(results, Head(result_queue).res.val)
                 /\ drained' = Append(drained, Head(result_queue))
            ELSE UNCHANGED <<results, drained>>
         /\ UNCHANGED <<cpc, ret, snapshot>>
    ELSE /\ ret' = OkList(results)
         /\ results' = <<>>
         /\ snapshot' = <<>>
         /\ drained' = <<>>
         /\ cpc' = "ready"
         /\ UNCHANGED <<result_queue, taken>>

\* a drain that ends at a failure with `break`: the failure is swallowed and
\* the values drained before it are returned
get_results_step_BreakOnFailure ==
    IF result_queue # <<>>
    THEN /\ TryRecv
         /\ IF Head(result_queue).res.tag = "Ok"
            THEN /\ results' = Append(results, Head(result_queue).res.val)
                 /\ drained' = Append(drained, Head(result_queue))
                 /\ UNCHANGED <<cpc, ret, snapshot>>
            ELSE /\ ret' = OkList(results)
                 /\ results' = <<>>
                 /\ snapshot' = <<>>
                 /\ drained' = <<>>
                 /\ cpc' = "ready"
    ELSE /\ ret' = OkList(results)
         /\ results' = <<>>
         /\ snapshot' = <<>>
         /\ drained' = <<>>
         /\ cpc' = "ready"
         /\ UNCHANGED <<result_queue, taken>>

\* a drain that first collects everything the channel holds and then looks
\* for a failure: what was pending behind the failure is consumed with it
get_results_step_DrainAll ==
    IF result_queue # <<>>
    THEN IF Head(result_queue).res.tag = "Ok"
         THEN /\ TryRecv
              /\ results' = Append(results, Head(result_queue).res.val)
              /\ drained' = Append(drained, Head(result_queue))
              /\ UNCHANGED <<cpc, ret, snapshot>>
         ELSE /\ result_queue' = <<>>
              /\ taken' = taken + Len(result_queue)
              /\ ret' = Head(result_queue).res
              /\ results' = <<>>
              /\ snapshot' = <<>>
              /\ drained' = <<>>
              /\ cpc' = "ready"
    ELSE /\ ret' = OkList(results)
         /\ results' = <<>>
         /\ snapshot' = <<>>
         /\ drained' = <<>>
         /\ cpc' = "ready"
         /\ UNCHANGED <<result_queue, taken>>

\* thread_pool.rs 104-110: one turn of the try_iter() loop, or its end
get_results_step ==
    IF result_queue # <<>>
    THEN /\ TryRecv
         /\ IF Head(result_queue).res.tag = "Ok"
            THEN /\ results' = Append(results, Head(result_queue).res.val)
                 /\ drained' = Append(drained, Head(result_queue))
                 /\ UNCHANGED <<cpc, ret, snapshot>>
            ELSE /\ ret' = Head(result_queue).res
                 /\ results' = <<>>
                 /\ snapshot' = <<>>
                 /\ drained' = <<>>
                 /\ cpc' = "ready"
    ELSE /\ ret' = OkList(results)
         /\ results' = <<>>
         /\ snapshot' = <<>>
         /\ drained' = <<>>
         /\ cpc' = "ready"
         /\ UNCHANGED <<result_queue, taken>>

GetResultsStep ==
    /\ UNCHANGED <<stdout, poisoned, fnVars>>
    /\ cpc = "get_results"
    /\ get_results_step
    /\ UNCHANGED <<op, job_sender, result_receiver, threads, job_queue, lock, wpc,
                   wjob, submitted, claimed, sent, sortVars>>

\* pool.recv_result() entered
RecvResultCall ==
    /\ UNCHANGED <<stdout, poisoned, fnVars>>
    /\ cpc = "ready"
    /\ cpc' = "recv_result"
    /\ op' = "recv_result"
    /\ UNCHANGED <<ret, results, poolVars, histVars, sortVars>>

\* pool.recv_result() returns
RecvResultReturn ==
    /\ UNCHANGED <<stdout, poisoned, fnVars>>
    /\ cpc = "recv_result"
    /\ recv_result
    /\ cpc' = "ready"
    /\ UNCHANGED <<op, results, job_sender, result_receiver, threads, job_queue,
                   lock, wpc, wjob, submitted, claimed, sent, snapshot, drained,
                   sortVars>>

\* test_dropped_sender: the pool's sender is dropped and replaced by the sender
\* of a channel whose receiver is already gone
ReplaceSender ==
    /\ UNCHANGED <<stdout, poisoned, fnVars>>
    /\ cpc = "ready"
    /\ job_sender = "Some"
    /\ job_sender' = "Dummy"
    /\ UNCHANGED <<ownerVars, result_receiver, threads, job_queue,
                   result_queue, lock, wpc, wjob, histVars, sortVars>>

\* drop() that joins the workers without dropping the job sender first
drop_start_KeepSender ==
    UNCHANGED <<job_sender, result_receiver, threads, job_queue, result_queue,
                lock, wpc, wjob>>

\* thread_pool.rs 124-128: drop() entered, self.job_sender.take()
drop_start ==
    /\ job_sender' = "None"
    /\ UNCHANGED <<result_receiver, threads, job_queue, result_queue, lock,
                   wpc, wjob>>

\* a drop() that lets each handle go without waiting for its thread
join_Detach ==
    /\ threads # <<>>
    /\ threads' = Tail(threads)
    /\ UNCHANGED <<job_sender, result_receiver, job_queue, result_queue, lock,
                   wpc, wjob>>

\* thread_pool.rs 130-135: thread.join() of the next handle returns
join ==
    /\ threads # <<>>
    /\ wpc[Head(threads)] \in {"exited", "panicked"}
    /\ threads' = Tail(threads)
    /\ UNCHANGED <<job_sender, result_receiver, job_queue, result_queue, lock,
                   wpc, wjob>>

\* a drop() that lets go of the pool's fields without joining the workers
drop_end_NoJoin ==
    /\ result_receiver' = "dropped"
    /\ UNCHANGED <<job_sender, threads, job_queue, result_queue, lock, wpc, wjob>>

\* thread_pool.rs 136-137: drop() returns and the fields are dropped
drop_end ==
    /\ threads = <<>>
    /\ result_receiver' = "dropped"
    /\ UNCHANGED <<job_sender, threads, job_queue, result_queue, lock, wpc, wjob>>

\* the pool goes out of scope in the owner
DropStart ==
    /\ UNCHANGED <<stdout, poisoned, fnVars>>
    /\ cpc = "ready"
    /\ drop_start
    /\ cpc' = "joining"
    /\ op' = "drop"
    /\ UNCHANGED <<ret, results, histVars, sortVars>>

\* drop() waiting in thread.join(), on the normal path or while a panic unwinds
Join ==
    /\ UNCHANGED <<stdout, poisoned, fnVars>>
    /\ cpc \in {"joining", "unwinding"}
    /\ join
    /\ UNCHANGED <<ownerVars, histVars, sortVars>>

\* drop() is over: the owner goes on (returns, or keeps unwinding its panic)
DropEnd ==
    /\ UNCHANGED <<stdout, poisoned, fnVars>>
    /\ cpc \in {"joining", "unwinding"}
    /\ drop_end
    /\ cpc' = IF cpc = "unwinding" THEN "panicked" ELSE "dropped"
    /\ UNCHANGED <<op, ret, results, histVars, sortVars>>

\* ------------------------------------------------------ parallel_merge_sort
\* chunks_exact(chunk_size): a final chunk shorter than chunk_size is left out
RECURSIVE Chunks_Exact(_, _)
Chunks_Exact(d, c) ==
    IF Len(d) < c
    THEN <<>>
    ELSE <<SubSeq(d, 1, c)>> \o Chunks_Exact(SubSeq(d, c + 1, Len(d)), c)

\* windows(chunk_size): every contiguous slice of length chunk_size, overlapping
Chunks_Windows(d, c) ==
    [i \in 1..(IF Len(d) >= c THEN Len(d) - c + 1 ELSE 0) |-> SubSeq(d, i, i + c - 1)]

\* slice::chunks(chunk_size): contiguous chunks, the last one possibly shorter
RECURSIVE Chunks(_, _)
Chunks(d, c) ==
    IF d = <<>>
    THEN <<>>
    ELSE IF Len(d) <= c
         THEN <<d>>
         ELSE <<SubSeq(d, 1, c)>> \o Chunks(SubSeq(d, c + 1, Len(d)), c)

Front(s) == SubSeq(s, 1, Len(s) - 1)
Last(s) == s[Len(s)]

\* main.rs 46-52: the pool is built (unwrap panics on ZeroThreads) and the input
\* chunked (chunks(0) panics, and the unwinding drops the pool)
DNew ==
    /\ UNCHANGED <<stdout, poisoned, fnVars>>
    /\ cpc = "sort_entry"
    /\ new(num_threads)
    /\ op' = "new"
    /\ IF ret'.tag # "Ok"
       THEN /\ cpc' = "panicked"
            /\ UNCHANGED <<chunks, num_chunks, todo>>
       ELSE IF chunk_size = 0
            THEN /\ cpc' = "unwind"
                 /\ UNCHANGED <<chunks, num_chunks, todo>>
            ELSE /\ chunks' = Chunks(data, chunk_size)
                 /\ num_chunks' = Len(chunks')
                 /\ todo' = num_chunks'
                 /\ cpc' = IF chunks' = <<>> THEN "loop" ELSE "submit_sort"
    /\ UNCHANGED <<results, histVars, data, chunk_size, num_threads,
                   sorted_chunks, remaining_chunks, num_pairs, round, received, output>>

\* main.rs 55-67: one turn of the loop submitting the sort jobs
DSubmitSort ==
    /\ UNCHANGED <<stdout, poisoned, fnVars>>
    /\ cpc = "submit_sort"
    /\ execute(SortJob(Head(chunks)))
    /\ op' = "execute"
    /\ chunks' = Tail(chunks)
    /\ cpc' = IF ret'.tag # "Ok" THEN "unwind"
              ELSE IF chunks' = <<>> THEN "recv_sort" ELSE "submit_sort"
    /\ UNCHANGED <<results, job_sender, result_receiver, threads, result_queue,
                   lock, wpc, wjob, taken, snapshot, drained, data, chunk_size,
                   num_threads, num_chunks, sorted_chunks, remaining_chunks,
                   num_pairs, todo, round, received, output>>

\* the sorted chunks collected with try_recv(): an empty channel ends the loop
DRecvSort_TryRecv ==
    /\ UNCHANGED <<stdout, poisoned, fnVars>>
    /\ cpc = "recv_sort"
    /\ IF result_queue # <<>>
       THEN /\ recv_result
            /\ sorted_chunks' = Append(sorted_chunks, ret'.val)
            /\ todo' = todo - 1
            /\ cpc' = IF todo' = 0 THEN "loop" ELSE "recv_sort"
       ELSE /\ cpc' = "loop"
            /\ UNCHANGED <<ret, result_queue, taken, sorted_chunks, todo>>
    /\ op' = "recv_result"
    /\ UNCHANGED <<results, job_sender, result_receiver, threads, job_queue,
                   lock, wpc, wjob, submitted, claimed, sent, snapshot, drained,
                   data, chunk_size, num_threads, chunks, num_chunks,
                   remaining_chunks, num_pairs, round, output>>
    /\ received' = IF result_queue # <<>>
                    THEN Append(received, Head(result_queue).id)
                    ELSE received

\* main.rs 70-74: one turn of the loop collecting the sorted chunks
DRecvSort ==
    /\ UNCHANGED <<stdout, poisoned, fnVars>>
    /\ cpc = "recv_sort"
    /\ recv_result
    /\ op' = "recv_result"
    /\ IF ret'.tag = "Ok"
       THEN /\ sorted_chunks' = Append(sorted_chunks, ret'.val)
            /\ todo' = todo - 1
            /\ cpc' = IF todo' = 0 THEN "loop" ELSE "recv_sort"
       ELSE /\ cpc' = "unwind"
            /\ UNCHANGED <<sorted_chunks, todo>>
    /\ UNCHANGED <<results, job_sender, result_receiver, threads, job_queue,
                   lock, wpc, wjob, submitted, claimed, sent, snapshot, drained,
                   data, chunk_size, num_threads, chunks, num_chunks,
                   remaining_chunks, num_pairs, round, output>>
    /\ received' = IF result_queue # <<>>
                    THEN Append(received, Head(result_queue).id)
                    ELSE received

\* a round that pairs the chunks without setting the odd one aside
DRound_NoCarry ==
    /\ UNCHANGED <<stdout, poisoned, fnVars>>
    /\ cpc = "loop"
    /\ Len(sorted_chunks) > 1
    /\ num_pairs' = Len(sorted_chunks) \div 2
    /\ remaining_chunks' = <<>>
    /\ UNCHANGED sorted_chunks
    /\ todo' = num_pairs'
    /\ round' = round + 1
    /\ cpc' = "submit_merge"
    /\ UNCHANGED <<op, ret, results, poolVars, histVars, data, chunk_size,
                   num_threads, chunks, num_chunks, received, output>>

\* main.rs 77-84: the head of a merge round
DRound ==
    /\ UNCHANGED <<stdout, poisoned, fnVars>>
    /\ cpc = "loop"
    /\ Len(sorted_chunks) > 1
    /\ num_pairs' = Len(sorted_chunks) \div 2
    /\ IF Len(sorted_chunks) % 2 # 0
       THEN /\ remaining_chunks' = <<Last(sorted_chunks)>>
            /\ sorted_chunks' = Front(sorted_chunks)
       ELSE /\ remaining_chunks' = <<>>
            /\ UNCHANGED sorted_chunks
    /\ todo' = num_pairs'
    /\ round' = round + 1
    /\ cpc' = "submit_merge"
    /\ UNCHANGED <<op, ret, results, poolVars, histVars, data, chunk_size,
                   num_threads, chunks, num_chunks, received, output>>

\* main.rs 87-102: one turn of the loop submitting the merge jobs
DSubmitMerge ==
    /\ UNCHANGED <<stdout, poisoned, fnVars>>
    /\ cpc = "submit_merge"
    /\ execute(MergeJob(sorted_chunks[1], sorted_chunks[2]))
    /\ op' = "execute"
    /\ sorted_chunks' = Tail(Tail(sorted_chunks))
    /\ todo' = IF todo = 1 THEN num_pairs ELSE todo - 1
    /\ cpc' = IF ret'.tag # "Ok" THEN "unwind"
              ELSE IF todo = 1 THEN "recv_merge" ELSE "submit_merge"
    /\ UNCHANGED <<results, job_sender, result_receiver, threads, result_queue,
                   lock, wpc, wjob, taken, snapshot, drained, data, chunk_size,
                   num_threads, chunks, num_chunks, remaining_chunks, num_pairs,
                   round, received, output>>

\* the merged chunks collected with `if let Ok(chunk) = ...`: a failure outcome
\* is dropped and the round goes on without its chunk
DRecvMerge_SkipFailure ==
    /\ UNCHANGED <<stdout, poisoned, fnVars>>
    /\ cpc = "recv_merge"
    /\ recv_result
    /\ op' = "recv_result"
    /\ todo' = todo - 1
    /\ LET got == IF ret'.tag = "Ok" /\ result_queue # <<>>
                  THEN Append(remaining_chunks, ret'.val)
                  ELSE remaining_chunks
       IN  IF todo' = 0
           THEN /\ sorted_chunks' = got
                /\ remaining_chunks' = <<>>
                /\ cpc' = "loop"
           ELSE /\ remaining_chunks' = got
                /\ cpc' = "recv_merge"
                /\ UNCHANGED sorted_chunks
    /\ UNCHANGED <<results, job_sender, result_receiver, threads, job_queue,
                   lock, wpc, wjob, submitted, claimed, sent, snapshot, drained,
                   data, chunk_size, num_threads, chunks, num_chunks, num_pairs,
                   round, output>>
    /\ received' = IF result_queue # <<>>
                    THEN Append(received, Head(result_queue).id)
                    ELSE received

\* main.rs 105-110: one turn of the loop collecting the merged chunks
DRecvMerge ==
    /\ UNCHANGED <<stdout, poisoned, fnVars>>
    /\ cpc = "recv_merge"
    /\ recv_result
    /\ op' = "recv_result"
    /\ IF ret'.tag = "Ok"
       THEN /\ todo' = todo - 1
            /\ IF todo' = 0
               THEN /\ sorted_chunks' = Append(remaining_chunks, ret'.val)
                    /\ remaining_chunks' = <<>>
                    /\ cpc' = "loop"
               ELSE /\ remaining_chunks' = Append(remaining_chunks, ret'.val)
                    /\ cpc' = "recv_merge"
                    /\ UNCHANGED sorted_chunks
       ELSE /\ cpc' = "unwind"
            /\ UNCHANGED <<sorted_chunks, remaining_chunks, todo>>
    /\ UNCHANGED <<results, job_sender, result_receiver, threads, job_queue,
                   lock, wpc, wjob, submitted, claimed, sent, snapshot, drained,
                   data, chunk_size, num_threads, chunks, num_chunks, num_pairs,
                   round, output>>
    /\ received' = IF result_queue # <<>>
                    THEN Append(received, Head(result_queue).id)
                    ELSE received

\* the result taken with unwrap(): no chunk at all is a panic of the driver
DFinish_Unwrap ==
    /\ UNCHANGED <<stdout, poisoned, fnVars>>
    /\ cpc = "loop"
    /\ Len(sorted_chunks) <= 1
    /\ IF sorted_chunks = <<>>
       THEN /\ cpc' = "unwind"
            /\ UNCHANGED <<op, output, sorted_chunks, poolVars>>
       ELSE /\ output' = Last(sorted_chunks)
            /\ sorted_chunks' = Front(sorted_chunks)
            /\ drop_start
            /\ op' = "drop"
            /\ cpc' = "joining"
    /\ UNCHANGED <<ret, results, histVars, data, chunk_size, num_threads, chunks,
                   num_chunks, remaining_chunks, num_pairs, todo, round, received>>

\* a merge loop written `while sorted_chunks.len() > 2`: it may end with two
\* chunks left and return the last of them
DFinish_TwoLeft ==
    /\ UNCHANGED <<stdout, poisoned, fnVars>>
    /\ cpc = "loop"
    /\ Len(sorted_chunks) <= 2
    /\ output' = IF sorted_chunks = <<>> THEN <<>> ELSE Last(sorted_chunks)
    /\ sorted_chunks' = IF sorted_chunks = <<>> THEN <<>> ELSE Front(sorted_chunks)
    /\ drop_start
    /\ op' = "drop"
    /\ cpc' = "joining"
    /\ UNCHANGED <<ret, results, histVars, data, chunk_size, num_threads, chunks,
                   num_chunks, remaining_chunks, num_pairs, todo, round, received>>

\* main.rs 113-114: sorted_chunks.pop().unwrap_or_default(), then the pool is dropped
DFinish ==
    /\ UNCHANGED <<stdout, poisoned, fnVars>>
    /\ cpc = "loop"
    /\ Len(sorted_chunks) <= 1
    /\ output' = IF sorted_chunks = <<>> THEN <<>> ELSE Last(sorted_chunks)
    /\ sorted_chunks' = IF sorted_chunks = <<>> THEN <<>> ELSE Front(sorted_chunks)
    /\ drop_start
    /\ op' = "drop"
    /\ cpc' = "joining"
    /\ UNCHANGED <<ret, results, histVars, data, chunk_size, num_threads, chunks,
                   num_chunks, remaining_chunks, num_pairs, todo, round, received>>

\* a panic of the driver unwinds through the pool's drop()
DUnwind ==
    /\ UNCHANGED <<stdout, poisoned, fnVars>>
    /\ cpc = "unwind"
    /\ drop_start
    /\ op' = "drop"
    /\ cpc' = "unwinding"
    /\ UNCHANGED <<ret, results, histVars, sortVars>>

\* parallel_merge_sort has returned its Vec
Returned == cpc = "dropped"

\* ------------------------------------------------------------ specification
NoSort ==
    /\ data = <<>>
    /\ chunk_size = 0
    /\ num_threads = 0
    /\ chunks = <<>>
    /\ num_chunks = 0
    /\ sorted_chunks = <<>>
    /\ remaining_chunks = <<>>
    /\ num_pairs = 0
    /\ todo = 0
    /\ round = 0
    /\ received = <<>>
    /\ output = <<>>

NoPool ==
    /\ job_sender = "None"
    /\ result_receiver = "dropped"
    /\ threads = <<>>
    /\ job_queue = <<>>
    /\ result_queue = <<>>
    /\ lock = 0
    /\ wpc = [w \in Workers |-> "unspawned"]
    /\ wjob = [w \in Workers |-> None]
    /\ results = <<>>
    /\ op = "none"
    /\ ret = None
    /\ submitted = <<>>
    /\ claimed = <<>>
    /\ sent = <<>>
    /\ taken = 0
    /\ snapshot = <<>>
    /\ drained = <<>>
    /\ stdout = "ok"
    /\ poisoned = FALSE

\* no call of merge or merge_sort on its own is under way
NoCall ==
    /\ merge_left = <<>>
    /\ merge_right = <<>>
    /\ left_iter = <<>>
    /\ right_iter = <<>>
    /\ result = <<>>
    /\ sort_arr = <<>>
    /\ sort_arr_before = <<>>

Init ==
    /\ cpc = "init"
    /\ NoPool
    /\ NoSort
    /\ NoCall

Owner ==
    \/ New
    \/ Execute
    \/ GetResultsCall
    \/ GetResultsStep
    \/ RecvResultCall
    \/ RecvResultReturn
    \/ ReplaceSender
    \/ DropStart
    \/ Join
    \/ DropEnd

Next == Owner \/ \E w \in Workers : Worker(w)

Spec == Init /\ [][Next]_vars

Fairness ==
    /\ \A w \in Workers : WF_vars(Worker(w))
    /\ WF_vars(Join)
    /\ WF_vars(DropEnd)

FairSpec == Spec /\ Fairness

RECURSIVE SeqsUpTo(_, _)
SeqsUpTo(S, n) ==
    IF n = 0
    THEN {<<>>}
    ELSE LET shorter == SeqsUpTo(S, n - 1)
         IN  shorter \cup {Append(s, x) : s \in {t \in shorter : Len(t) = n - 1}, x \in S}

\* main.rs 189: the input of test_parallel_merge_sort_correctness
TestData == <<5, 2, 9, 1, 5, 6>>

\* the arguments of parallel_merge_sort (usize: 0 is a value of both counts)
SortInit ==
    /\ cpc = "sort_entry"
    /\ NoPool
    /\ data \in SeqsUpTo(1..MaxElem, MaxLen) \cup {TestData}
    /\ chunk_size \in 0..MaxChunk
    /\ num_threads \in 0..MaxThreads
    /\ chunks = <<>>
    /\ num_chunks = 0
    /\ sorted_chunks = <<>>
    /\ remaining_chunks = <<>>
    /\ num_pairs = 0
    /\ todo = 0
    /\ round = 0
    /\ received = <<>>
    /\ output = <<>>
    /\ NoCall

Driver ==
    \/ DNew
    \/ DSubmitSort
    \/ DRecvSort
    \/ DRound
    \/ DSubmitMerge
    \/ DRecvMerge
    \/ DFinish
    \/ DUnwind
    \/ Join
    \/ DropEnd

SortNext == Driver \/ \E w \in Workers : Worker(w)

SortSpec == SortInit /\ [][SortNext]_vars

FairSortSpec == SortSpec /\ Fairness /\ WF_vars(Driver)

\* the reader of the process's stdout goes away: from now on writes fail
StdoutFails ==
    /\ stdout = "ok"
    /\ stdout' = "failing"
    /\ UNCHANGED <<ownerVars, poolVars, histVars, sortVars, poisoned, fnVars>>

\* parallel_merge_sort with a stdout that may fail under the closures' println!
FaultySortNext == SortNext \/ StdoutFails

FaultySortSpec == SortInit /\ [][FaultySortNext]_vars

\* ------------------------------------------- merge and merge_sort, called
\* main.rs 182: the input of test_merge_sort_single_element
SingleElement == <<42>>

\* a call of merge(left, right) on any two slices, or a call of merge_sort(arr)
\* on any slice
FnInit ==
    /\ NoPool
    /\ NoSort
    /\ \/ /\ cpc = "merge_loop"
          /\ merge_left \in SeqsUpTo(1..MaxElem, MaxLen)
          /\ merge_right \in SeqsUpTo(1..MaxElem, MaxLen)
          /\ left_iter = merge_left
          /\ right_iter = merge_right
          /\ result = <<>>
          /\ sort_arr = <<>>
          /\ sort_arr_before = <<>>
       \/ /\ cpc = "merge_sort"
          /\ sort_arr \in SeqsUpTo(1..MaxElem, MaxLen) \cup {TestData, SingleElement}
          /\ sort_arr_before = sort_arr
          /\ merge_left = <<>>
          /\ merge_right = <<>>
          /\ left_iter = <<>>
          /\ right_iter = <<>>
          /\ result = <<>>

\* a loop that takes from right when the two heads are equal
MergeStep_RightOnTie ==
    /\ cpc = "merge_loop"
    /\ left_iter # <<>>
    /\ right_iter # <<>>
    /\ IF Head(left_iter) < Head(right_iter)
       THEN /\ result' = Append(result, Head(left_iter))
            /\ left_iter' = Tail(left_iter)
            /\ UNCHANGED right_iter
       ELSE /\ result' = Append(result, Head(right_iter))
            /\ right_iter' = Tail(right_iter)
            /\ UNCHANGED left_iter
    /\ UNCHANGED <<ownerVars, poolVars, histVars, sortVars, stdout, poisoned,
                   merge_left, merge_right, sort_arr, sort_arr_before>>

\* main.rs 15-21: one turn of the while loop of merge
MergeStep ==
    /\ cpc = "merge_loop"
    /\ left_iter # <<>>
    /\ right_iter # <<>>
    /\ IF Head(left_iter) <= Head(right_iter)
       THEN /\ result' = Append(result, Head(left_iter))
            /\ left_iter' = Tail(left_iter)
            /\ UNCHANGED right_iter
       ELSE /\ result' = Append(result, Head(right_iter))
            /\ right_iter' = Tail(right_iter)
            /\ UNCHANGED left_iter
    /\ UNCHANGED <<ownerVars, poolVars, histVars, sortVars, stdout, poisoned,
                   merge_left, merge_right, sort_arr, sort_arr_before>>

\* main.rs 23-25: the loop is over; what is left of either side is appended
\* and result is returned
MergeExtend ==
    /\ cpc = "merge_loop"
    /\ left_iter = <<>> \/ right_iter = <<>>
    /\ result' = result \o left_iter \o right_iter
    /\ left_iter' = <<>>
    /\ right_iter' = <<>>
    /\ cpc' = "merge_ret"
    /\ UNCHANGED <<op, ret, results, poolVars, histVars, sortVars, stdout,
                   poisoned, merge_left, merge_right, sort_arr, sort_arr_before>>

\* main.rs 29-42: merge_sort(arr) runs and leaves its result in the slice
MergeSortCall ==
    /\ cpc = "merge_sort"
    /\ sort_arr' = merge_sort(sort_arr)
    /\ cpc' = "merge_sort_ret"
    /\ UNCHANGED <<op, ret, results, poolVars, histVars, sortVars, stdout,
                   poisoned, merge_left, merge_right, left_iter, right_iter,
                   result, sort_arr_before>>

FnNext == MergeStep \/ MergeExtend \/ MergeSortCall

FnSpec == FnInit /\ [][FnNext]_vars

\* ------------------------------------------------------------------ helpers
Holding == {w \in Workers : wjob[w] # None}
JobIds == 1..Len(submitted)

\* ------------------------------------------------------------------- claims

\* C5: ThreadPool::new(0) returns ZeroThreads and spawns no worker thread;
\* new(n) with n >= 1 succeeds and leaves exactly n live workers, which all
\* contend for the one job receiver (one lock, held by at most the worker that
\* is inside its receive).
C5_NewZeroOrN ==
    /\ (cpc # "init" /\ num_threads = 0) =>
          /\ cpc = "failed"
          /\ ret = ZeroThreads
          /\ Spawned = {}
          /\ threads = <<>>
    /\ (cpc # "init" /\ num_threads >= 1) =>
          /\ cpc # "failed"
          /\ Spawned = 1..num_threads
          /\ op = "new" => ret = OkUnit
          /\ job_sender = "Some" => (Live = Spawned /\ Len(threads) = num_threads)
          /\ \A w \in Workers : (wpc[w] = "locked") <=> (lock = w)

C5_Witness ==
    /\ op = "new"
    /\ job_sender = "Some"
    /\ num_threads = MaxThreads
    /\ Cardinality(Live) = MaxThreads
    /\ \E w \in Workers : wpc[w] = "locked"

\* C2: under every interleaving of the workers, no job is dequeued twice, no
\* two workers hold or execute the same job, and no job yields two outcomes.
C2_NoDoubleClaim ==
    /\ \A j \in JobIds : claimed[j] <= 1 /\ sent[j] <= 1
    /\ \A v, w \in Holding : v # w => wjob[v].id # wjob[w].id
    /\ \A w \in Holding : \A i \in 1..Len(job_queue) : job_queue[i].id # wjob[w].id

C2_Witness ==
    /\ Cardinality({w \in Workers : wpc[w] = "exec"}) >= 2
    /\ \A j \in JobIds : claimed[j] = 1

\* C3: a job whose body panics yields exactly one ThreadPanic outcome and a job
\* that returns v yields exactly one Success(v); a panicking job costs no
\* worker, so once the queue is empty and no worker holds a job every
\* submitted job has its outcome, whatever was submitted before or after it.
C3_PanicIsolated ==
    /\ \A i \in 1..Len(result_queue) :
          LET o == result_queue[i]
              body == submitted[o.id]
          IN  /\ body.kind = "panic" => (o.res.tag = "Err" /\ o.res.kind = "ThreadPanic")
              /\ body.kind = "ret" => o.res = Ok(body.val)
    /\ \A j \in JobIds : sent[j] <= 1
    /\ \A w \in Workers : wpc[w] # "panicked"
    /\ (job_queue = <<>> /\ Holding = {}) => \A j \in JobIds : sent[j] = 1

\* the scenario of the spec: one worker, a panicking job then a returning job
C3_Witness ==
    /\ num_threads = 1
    /\ Len(submitted) = 2
    /\ submitted[1].kind = "panic"
    /\ submitted[2] = Ret(2)
    /\ Len(result_queue) = 2
    /\ result_queue[1].res = ThreadPanic("boom")
    /\ result_queue[2].res = Ok(2)
    /\ wpc[1] = "locked"

\* C6: execute() on a pool whose job sender is closed (None, or the receiving
\* side gone) returns SendError in the same step; nothing enters the queue, so
\* nothing of it is ever executed; and the call is never blocked.
C6_ExecuteAfterClose ==
    /\ [][(Execute /\ JobChannelClosed) =>
            /\ ret' = SendError
            /\ cpc' = "ready"
            /\ UNCHANGED <<job_queue, submitted, claimed, sent, wjob, result_queue>>]_vars
    /\ []((cpc = "ready" /\ JobChannelClosed) => ENABLED Execute)

C6_Witness ==
    /\ job_sender = "Dummy"
    /\ op = "execute"
    /\ ret = SendError
    /\ submitted = <<>>
    /\ Live # {}

RECURSIVE Sum(_)
Sum(s) == IF s = <<>> THEN 0 ELSE Head(s) + Sum(Tail(s))

TornDown == op = "drop"

\* C1: on a pool that is not torn down, every job that execute() accepted
\* eventually has its outcome in the result channel (or already taken off it),
\* whatever the worker count and the interleaving; no job ever has two
\* outcomes, every buffered outcome belongs to one submitted job of its own,
\* and the outcomes buffered and taken are exactly the outcomes sent.
C1_EveryJobOneOutcome ==
    /\ \A j \in 1..MaxJobs :
          (Len(submitted) >= j /\ ~TornDown)
             ~> ((Len(submitted) >= j /\ sent[j] = 1) \/ TornDown)
    /\ [](\A j \in JobIds : sent[j] <= 1)
    /\ [](\A i, k \in 1..Len(result_queue) :
             /\ result_queue[i].id \in JobIds
             /\ i # k => result_queue[i].id # result_queue[k].id)
    /\ [](Len(result_queue) + taken = Sum(sent))

C1_Witness ==
    /\ num_threads = MaxThreads
    /\ Len(submitted) = MaxJobs
    /\ \A j \in JobIds : sent[j] = 1
    /\ Len(result_queue) = MaxJobs
    /\ ~TornDown

\* C7: teardown drops the job sender first and then, from whatever state the
\* pool was in (jobs queued, workers executing, a worker blocked in receive with
\* the lock and the others waiting for it), joins every worker: drop() always
\* completes, and when it has, every worker has exited and been joined.
C7_TeardownCompletes ==
    /\ (op = "drop") ~> (cpc = "dropped")
    /\ [](op = "drop" => job_sender = "None")
    /\ [](cpc = "dropped" =>
             /\ threads = <<>>
             /\ \A w \in Spawned : wpc[w] = "exited")

C7_Witness ==
    /\ cpc = "joining"
    /\ Len(threads) = MaxThreads
    /\ job_queue # <<>>
    /\ \E v, w \in Workers : wpc[v] = "exec" /\ wpc[w] = "locked"

IsSorted(s) == \A i, k \in 1..Len(s) : i < k => s[i] <= s[k]
Count(s, v) == Cardinality({i \in 1..Len(s) : s[i] = v})
Range(s) == {s[i] : i \in 1..Len(s)}
SameMultiset(s, t) == \A v \in Range(s) \cup Range(t) : Count(s, v) = Count(t, v)

\* C4: for every input (empty and single-element included), every chunk size
\* >= 1 and every worker count >= 1, under every interleaving of the workers,
\* parallel_merge_sort does not panic and what it returns is non-decreasing and
\* a permutation of the input (same length, same multiset).
C4_ParallelSortSorts ==
    /\ Returned =>
          /\ IsSorted(output)
          /\ Len(output) = Len(data)
          /\ SameMultiset(output, data)
    /\ (chunk_size >= 1 /\ num_threads >= 1) =>
          cpc \notin {"unwind", "unwinding", "panicked"}

\* the scenario of test_parallel_merge_sort_correctness
C4_Witness ==
    /\ Returned
    /\ data = TestData
    /\ chunk_size = 2
    /\ num_threads = 2
    /\ output = <<1, 2, 5, 5, 6, 9>>

\* C8: recv_result() stays blocked while no outcome is buffered and some worker
\* still lives; when it returns it returns the oldest buffered outcome, also
\* when the channel is already disconnected; it returns ReceiveError only when
\* nothing is buffered and every worker has exited.
C8_RecvResult ==
    /\ [][(cpc = "recv_result" /\ cpc' = "ready") =>
            IF result_queue # <<>>
            THEN /\ ret' = Head(result_queue).res
                 /\ result_queue' = Tail(result_queue)
            ELSE /\ ret' = ReceiveError
                 /\ Live = {}
                 /\ result_queue' = <<>>]_vars
    /\ []((cpc = "recv_result" /\ result_queue = <<>> /\ Live # {})
             => ~ENABLED RecvResultReturn)
    /\ []((cpc = "recv_result" /\ (result_queue # <<>> \/ Live = {}))
             => ENABLED RecvResultReturn)

\* recv_result has returned an outcome from a channel that is disconnected
C8_Witness ==
    /\ op = "recv_result"
    /\ cpc = "ready"
    /\ ret.tag = "Ok"
    /\ Live = {}
    /\ Spawned # {}

\* the owner is inside a recv_result() call with every submitted job's outcome
\* already taken: the call "one too many"
ExtraRecv == cpc = "recv_result" /\ taken = Len(submitted)

\* C9 as stated: on a pool with N submitted jobs the (N+1)-th recv_result()
\* call returns (ReceiveError).
C9_ExtraRecvReturns == ExtraRecv => ENABLED RecvResultReturn

\* C9 amended: while the pool's job sender is in place the (N+1)-th
\* recv_result() never returns: the call is blocked and stays blocked, since
\* every worker lives and holds a result sender; recv_result returns
\* ReceiveError only once the job sender is gone, every worker has exited and
\* nothing is buffered.
C9_ExtraRecvBlocks ==
    /\ []((ExtraRecv /\ job_sender = "Some") => ~ENABLED RecvResultReturn)
    /\ [][(ExtraRecv /\ job_sender = "Some") => (ExtraRecv /\ job_sender = "Some")']_vars
    /\ [][(cpc = "recv_result" /\ cpc' = "ready" /\ ret' = ReceiveError) =>
            (job_sender # "Some" /\ Live = {} /\ result_queue = <<>>)]_vars

\* all outcomes taken, the owner in one more recv_result, every worker waiting
C9_Witness ==
    /\ ExtraRecv
    /\ job_sender = "Some"
    /\ Len(submitted) = MaxJobs
    /\ num_threads = MaxThreads
    /\ \A w \in Spawned : wpc[w] \in {"idle", "locked"}
    /\ \E w \in Spawned : wpc[w] = "locked"

Vals(q) == [i \in 1..Len(q) |-> q[i].res.val]
Failures(q) == {i \in 1..Len(q) : q[i].res.tag = "Err"}
FirstFailure(q) == q[CHOOSE i \in Failures(q) : \A k \in Failures(q) : i <= k].res
IsPrefix(s, t) == Len(s) <= Len(t) /\ SubSeq(t, 1, Len(s)) = s

\* what C10 says get_results returns, from the channel as it was at the call
DrainOf(q) == IF Failures(q) # {} THEN FirstFailure(q) ELSE OkList(Vals(q))

\* C10 as stated: get_results() returns exactly the outcomes buffered at the
\* time of the call, in arrival order, or the first failure among them.
C10_ReturnsSnapshot ==
    [][(cpc = "get_results" /\ cpc' = "ready") => ret' = DrainOf(snapshot)]_vars

\* C10 amended: get_results() never blocks; it takes outcomes off the channel
\* in arrival order until it finds the channel empty or meets a failure, which
\* covers the outcomes buffered at the time of the call and those the workers
\* send while it drains; it returns the values taken, in arrival order (the
\* empty list when it found none), or the first failure it met.
C10_DrainsInArrivalOrder ==
    /\ [](cpc = "get_results" => ENABLED GetResultsStep)
    /\ [](cpc = "get_results" =>
             /\ Failures(drained) = {}
             /\ results = Vals(drained)
             /\ IsPrefix(snapshot, drained \o result_queue))
    /\ [][(cpc = "get_results" /\ cpc' = "ready") =>
            IF result_queue = <<>>
            THEN /\ ret' = OkList(Vals(drained))
                 /\ IsPrefix(snapshot, drained)
            ELSE /\ Head(result_queue).res.tag = "Err"
                 /\ ret' = Head(result_queue).res]_vars

\* two values drained in the order they arrived
C10_Witness ==
    /\ op = "get_results"
    /\ cpc = "ready"
    /\ ret = OkList(<<1, 2>>)

Panicking == cpc \in {"unwind", "unwinding", "panicked"}
ValidArgs == chunk_size >= 1 /\ num_threads >= 1

\* C11 as stated: for the empty input parallel_merge_sort returns the empty
\* sequence for any chunk size and any worker count: it never panics, and
\* what it returns is empty.
C11_EmptyAnyArgs ==
    data = <<>> => (~Panicking /\ (Returned => output = <<>>))

\* C11 amended: for the empty input, any chunk size >= 1 and any worker count
\* >= 1, parallel_merge_sort submits no job, does not panic, returns, and what
\* it returns is the empty sequence; with chunk size 0 or worker count 0 it
\* panics and never returns.
C11_EmptyValidArgs ==
    /\ [](data = <<>> /\ ValidArgs =>
             /\ ~Panicking
             /\ submitted = <<>>
             /\ Returned => output = <<>>)
    /\ (data = <<>> /\ ValidArgs) ~> Returned
    /\ [](data = <<>> /\ ~ValidArgs => ~Returned)

C11_Witness ==
    /\ data = <<>>
    /\ chunk_size = MaxChunk
    /\ num_threads = MaxThreads
    /\ Returned
    /\ output = <<>>

SortJobs == {j \in JobIds : submitted[j].kind = "sort"}
MergeJobs == {j \in JobIds : submitted[j].kind = "merge"}

\* C12 as stated: when chunk size >= input length, a parallel_merge_sort that
\* returns has submitted exactly one sort job and no merge job, and its output
\* is that of the sequential merge_sort on the same input.
C12_OneSortJob ==
    (Returned /\ chunk_size >= Len(data)) =>
        /\ Cardinality(SortJobs) = 1
        /\ MergeJobs = {}
        /\ output = merge_sort(data)

\* C12 amended: when chunk size >= input length, parallel_merge_sort never
\* submits a merge job and never starts a merge round; for a non-empty input
\* it submits exactly one sort job, of the whole input, and for the empty
\* input it submits no job at all; in both cases what it returns is the output
\* of the sequential merge_sort on the same input.
C12_SingleChunk ==
    chunk_size >= Len(data) =>
        /\ MergeJobs = {}
        /\ round = 0
        /\ Len(submitted) <= 1
        /\ \A j \in JobIds : submitted[j] = SortJob(data)
        /\ Returned =>
              /\ submitted = IF data = <<>> THEN <<>> ELSE <<SortJob(data)>>
              /\ output = merge_sort(data)

C12_Witness ==
    /\ Returned
    /\ Len(data) = MaxChunk
    /\ chunk_size = MaxChunk
    /\ ~IsSorted(data)
    /\ submitted = <<SortJob(data)>>
    /\ output = merge_sort(data)

\* the ids of the jobs that are queued, held by a worker, or answered and not
\* yet received by the driver
InFlight ==
    {job_queue[i].id : i \in 1..Len(job_queue)}
        \cup {wjob[w].id : w \in Holding}
        \cup {result_queue[i].id : i \in 1..Len(result_queue)}

\* the jobs submitted before the round the driver is in
BeforeThisRound ==
    IF cpc = "submit_merge" THEN Len(submitted) - (num_pairs - todo)
    ELSE IF cpc = "recv_merge" THEN Len(submitted) - num_pairs
    ELSE IF cpc \in {"submit_sort", "recv_sort"} THEN 0
    ELSE Len(submitted)

\* C13: round barrier of parallel_merge_sort: while the driver submits or
\* collects the jobs of a round, every outcome of the earlier rounds has been
\* received (only jobs of the current round are in flight), and a round starts
\* and the sort ends only with nothing in flight; so no merge job exists while
\* a sort job is queued, executing or unreceived, and both chunks of every
\* merge job are sorted.
C13_RoundBarrier ==
    /\ [](~Panicking => \A j \in InFlight : j > BeforeThisRound)
    /\ [](cpc \in {"submit_sort", "recv_sort", "submit_merge", "recv_merge"} =>
             taken >= BeforeThisRound)
    /\ [][(DRound \/ DFinish) =>
             (InFlight = {} /\ taken = Len(submitted))]_vars
    /\ [](MergeJobs # {} =>
             /\ SortJobs \cap InFlight = {}
             /\ \A j \in SortJobs : sent[j] = 1)
    /\ [](\A j \in MergeJobs :
             IsSorted(submitted[j].left) /\ IsSorted(submitted[j].right))

\* the second merge round of a three-chunk sort: its merge job is out, and the
\* chunk carried over from the first round is one of its two inputs
C13_Witness ==
    /\ round = 2
    /\ cpc = "recv_merge"
    /\ Cardinality(SortJobs) = 3
    /\ Cardinality(MergeJobs) = 2
    /\ InFlight = {Len(submitted)}
    /\ ~IsSorted(data)

\* the merge rounds run on the chunks cs with every outcome arriving in the
\* order its job was submitted
RECURSIVE MergeRounds(_)
MergeRounds(cs) ==
    IF Len(cs) <= 1
    THEN IF cs = <<>> THEN <<>> ELSE cs[1]
    ELSE LET odd == Len(cs) % 2 # 0
             paired == IF odd THEN Front(cs) ELSE cs
             carried == IF odd THEN <<Last(cs)>> ELSE <<>>
             merged == [i \in 1..(Len(paired) \div 2) |->
                           merge(paired[2 * i - 1], paired[2 * i])]
         IN  MergeRounds(carried \o merged)

\* what parallel_merge_sort returns when every round's outcomes arrive in
\* submission order
InOrderRun(d, c) ==
    LET cs == Chunks(d, c)
    IN  MergeRounds([i \in 1..Len(cs) |-> merge_sort(cs[i])])

OutOfOrder == \E i, k \in 1..Len(received) : i < k /\ received[i] > received[k]

\* C14: for a fixed input, chunk size and worker count, whatever the order in
\* which the workers complete the jobs and the outcomes arrive in each round,
\* parallel_merge_sort returns the same sequence: the one it returns when
\* every outcome arrives in submission order.
C14_OrderIndependent ==
    Returned => output = InOrderRun(data, chunk_size)

\* a sort that returned after outcomes overtook each other in the sort round
\* and in a merge round
C14_Witness ==
    /\ Returned
    /\ OutOfOrder
    /\ data = TestData
    /\ \E i, k \in 1..Len(received) :
          /\ i < k
          /\ received[i] > received[k]
          /\ received[k] \in MergeJobs

\* the driver is panicking on the failure outcome of one of its jobs
DriverFailed == Panicking /\ ret.tag = "Err" /\ ret.kind = "ThreadPanic"

\* the driver receives the outcome at the head of the result channel
DriverTakes ==
    /\ cpc \in {"recv_sort", "recv_merge"}
    /\ result_queue # <<>>
    /\ taken' = taken + 1

ReportsPanic(w) ==
    /\ wpc[w] = "exec"
    /\ wjob[w].body.kind = "panic"
    /\ wjob'[w] = None

\* C16: while the pool's job sender is in place, the workers that have not
\* exited are exactly the n workers spawned at construction, whatever jobs
\* ran: none is added, none exits or dies, and a worker that ran a panicking
\* job is back at the head of its loop (Running), ready to dequeue again.
C16_WorkerCountStable ==
    /\ []((cpc \notin {"init", "failed"} /\ job_sender = "Some") =>
             /\ Live = 1..num_threads
             /\ Cardinality(Live) = num_threads
             /\ Spawned = Live
             /\ Len(threads) = num_threads)
    /\ [][cpc # "init" => Spawned' = Spawned]_vars
    /\ [][\A w \in Workers :
             (ReportsPanic(w) /\ job_sender = "Some") => wpc'[w] = "idle"]_vars

\* every submitted job panicked and was reported, and every worker is in its
\* loop again
C16_Witness ==
    /\ job_sender = "Some"
    /\ num_threads = MaxThreads
    /\ \A w \in Workers : wpc[w] \in {"idle", "locked"}
    /\ Len(result_queue) = MaxJobs
    /\ \A i \in 1..Len(result_queue) : result_queue[i].res.tag = "Err"

HeldIds == {wjob[w].id : w \in Holding}
QueuedIds == {job_queue[i].id : i \in 1..Len(job_queue)}

\* C17: conservation: in every reachable state the jobs successfully
\* submitted are as many as the jobs waiting in the job queue, plus the jobs
\* held or executing in a worker, plus the outcomes buffered in the result
\* channel, plus the outcomes the consumer took; a job is queued, or held, or
\* answered, exactly one of the three; a dequeued job that has left its worker
\* has exactly one outcome, and a worker holding a job can always hand it in.
C17_Conservation ==
    /\ Len(submitted) =
          Len(job_queue) + Cardinality(Holding) + Len(result_queue) + taken
    /\ \A j \in JobIds :
          /\ claimed[j] = 0 <=> j \in QueuedIds
          /\ (claimed[j] = 1 /\ sent[j] = 0) <=> j \in HeldIds
          /\ sent[j] <= claimed[j]
          /\ claimed[j] <= 1
    /\ Cardinality(HeldIds) = Cardinality(Holding)
    /\ \A w \in Holding : wpc[w] = "exec" /\ ENABLED Exec(w)

\* of the jobs submitted, one is executing in a worker and the outcome of
\* another, a panic, has been taken by the consumer
C17_Witness ==
    /\ Len(submitted) = MaxJobs
    /\ job_queue = <<>>
    /\ Cardinality(Holding) = 1
    /\ Len(result_queue) = MaxJobs - 2
    /\ taken = 1
    /\ op = "recv_result"
    /\ ret.tag = "Err"

\* worker w leaves its loop in this step
Exits(w) == wpc[w] # "exited" /\ wpc'[w] = "exited"

\* C18: a worker exits only from its receive, and only when the job channel
\* is closed (sender dropped) and empty; Exited is terminal: an exited worker
\* takes no step and dequeues nothing; so the jobs still queued when the
\* sender was dropped are all dequeued by workers that then run them, and once
\* the last worker has exited every submitted job has been dequeued and has
\* its outcome.
C18_ExitOnlyWhenDrained ==
    /\ [][\A w \in Workers : Exits(w) =>
             /\ wpc[w] = "locked"
             /\ JobChannelClosed
             /\ job_queue = <<>>]_vars
    /\ [][\A w \in Workers : wpc[w] = "exited" =>
             (wpc'[w] = "exited" /\ wjob'[w] = None)]_vars
    /\ [](\A w \in Workers : wpc[w] = "exited" => ~ENABLED Worker(w))
    /\ []((\E w \in Workers : wpc[w] = "exited") =>
             (JobChannelClosed /\ job_queue = <<>>))
    /\ []((Spawned # {} /\ Live = {}) =>
             \A j \in JobIds : claimed[j] = 1 /\ sent[j] = 1)
    /\ []((JobChannelClosed /\ job_queue # <<>>) => Live = Spawned)

\* after the sender was dropped: one worker has exited while another still
\* runs the last job of the queue
C18_Witness ==
    /\ job_sender = "None"
    /\ Len(submitted) = MaxJobs
    /\ job_queue = <<>>
    /\ \E v, w \in Workers :
          /\ wpc[v] = "exited"
          /\ wpc[w] = "exec"
          /\ wjob[w].id = MaxJobs

\* worker w dequeues a job in this step
Dequeues(w) == wjob[w] = None /\ wjob'[w] # None

\* C19: the lock around the job receiver is held for one dequeue attempt
\* only: its holder is a worker inside its receive, the step in which the
\* receive returns (with a job or with the closure) gives the lock back, and
\* in no reachable state does a worker that executes a job or sends its
\* outcome hold the lock.
C19_LockOnlyForDequeue ==
    /\ [](\A w \in Workers : wpc[w] = "exec" => lock # w)
    /\ [](\A w \in Workers : lock = w <=> wpc[w] = "locked")
    /\ [](lock \in Workers \cup {0})
    /\ [][\A w \in Workers :
             (Dequeues(w) \/ Exits(w)) => (lock = w /\ lock' = 0)]_vars

\* one worker executes its job while the other waits in receive with the lock
C19_Witness ==
    /\ job_sender = "Some"
    /\ job_queue = <<>>
    /\ \E v, w \in Workers :
          /\ wpc[v] = "exec"
          /\ wpc[w] = "locked"
          /\ lock = w

\* C20: jobs run in parallel: a worker that executes a job keeps no other
\* worker from dequeuing (an idle worker gets the lock unless some worker is
\* inside its receive, and a worker inside its receive gets the next queued
\* job at once), so two workers execute at the same time; and a worker
\* blocked in receive on an empty queue, holding the lock, keeps no worker
\* from finishing its job and emitting the outcome.
C20_RunsInParallel ==
    /\ [](\A w \in Workers : wpc[w] = "idle" =>
             (ENABLED Lock(w) \/ \E u \in Workers : wpc[u] = "locked"))
    /\ [](\A w \in Workers : (wpc[w] = "locked" /\ job_queue # <<>>) =>
             ENABLED Recv(w))
    /\ [](\A v \in Workers : wpc[v] = "exec" => ENABLED Exec(v))
    /\ [][\A v, w \in Workers :
             (/\ v # w
              /\ wpc[w] = "locked" /\ wpc'[w] = "locked"
              /\ job_queue = <<>>
              /\ wpc[v] = "exec" /\ wpc'[v] # "exec")
             => (/\ Len(result_queue') = Len(result_queue) + 1
                 /\ Last(result_queue').id = wjob[v].id)]_vars

\* two workers execute the first two jobs at the same time
C20_Witness ==
    /\ num_threads >= 2
    /\ Len(submitted) >= 2
    /\ \E v, w \in Workers :
          /\ v # w
          /\ wpc[v] = "exec" /\ wpc[w] = "exec"
          /\ wjob[v].id = 1 /\ wjob[w].id = 2
    /\ taken = 0
    /\ result_queue = <<>>

\* C21: no worker thread ever terminates by panic and the lock around the job
\* receiver is never poisoned: a worker that runs a job (panicking or not)
\* does not hold the lock, so lock().unwrap() never fails; and send().unwrap()
\* never fails, because the result receiver is alive whenever a worker has not
\* exited, teardown included: it is dropped only after every worker was joined.
C21_NoWorkerPanic ==
    /\ \A w \in Workers : wpc[w] # "panicked"
    /\ ~poisoned
    /\ \A w \in Holding : lock # w
    /\ Live # {} => result_receiver = "alive"
    /\ cpc \in {"joining", "unwinding"} => result_receiver = "alive"
    /\ (Spawned # {} /\ result_receiver = "dropped") =>
          (threads = <<>> /\ \A w \in Spawned : wpc[w] = "exited")

\* teardown is joining the workers while one of them still runs a panicking
\* job and has yet to send its outcome
C21_Witness ==
    /\ cpc = "joining"
    /\ result_receiver = "alive"
    /\ \E v, w \in Workers :
          /\ wpc[v] = "exited"
          /\ wpc[w] = "exec"
          /\ wjob[w].body.kind = "panic"

BufferedIds == {result_queue[i].id : i \in 1..Len(result_queue)}
DrainedIds == {drained[i].id : i \in 1..Len(drained)}

\* get_results() returns in this step because it met a failure outcome
FailureReturn ==
    /\ cpc = "get_results"
    /\ cpc' = "ready"
    /\ result_queue # <<>>

\* C22: when get_results() meets a failure outcome it returns that failure and
\* nothing else: the values it drained earlier in the call are dropped with
\* its local Vec, they are in the channel no more, and an outcome that has
\* left the channel never comes back to it, so no later get_results() or
\* recv_result() call receives them.
C22_DrainedSuccessesLost ==
    /\ [][FailureReturn =>
             /\ ret' = Head(result_queue).res
             /\ ret'.tag = "Err"
             /\ results' = <<>>
             /\ DrainedIds \cap BufferedIds' = {}]_vars
    /\ [](cpc = "get_results" =>
             /\ DrainedIds \cap BufferedIds = {}
             /\ \A j \in DrainedIds : sent[j] = 1)
    /\ [][\A j \in JobIds :
             (sent[j] = 1 /\ j \notin BufferedIds) => j \notin BufferedIds']_vars
    /\ [](cpc # "get_results" => results = <<>>)

\* get_results has returned the failure of the second job after it had
\* drained the value of the first
C22_Witness ==
    /\ op = "get_results"
    /\ cpc = "ready"
    /\ submitted = <<Ret(1), Panic([type |-> "&str", text |-> "boom"])>>
    /\ ret = ThreadPanic("boom")
    /\ taken = 2
    /\ result_queue = <<>>
    /\ results = <<>>

\* C23 as stated: when get_results() returns on the first failure, the
\* outcomes pending behind it are discarded: the channel holds them no more.
C23_PendingDiscarded ==
    [][FailureReturn => result_queue' = <<>>]_vars

\* C23 amended: when get_results() returns on the first failure it has taken
\* that failure off the channel and nothing behind it: the outcomes pending
\* behind the failure stay in the channel, in their order, and the next
\* get_results() or recv_result() call receives them.
C23_PendingKept ==
    /\ [][FailureReturn =>
             /\ result_queue' = Tail(result_queue)
             /\ taken' = taken + 1]_vars
    /\ [](cpc = "ready" => (ENABLED RecvResultCall /\ ENABLED GetResultsCall))
    /\ []((cpc = "recv_result" /\ result_queue # <<>>) => ENABLED RecvResultReturn)
    /\ [][(cpc = "recv_result" /\ cpc' = "ready" /\ result_queue # <<>>) =>
             ret' = Head(result_queue).res]_vars

\* get_results has returned the failure of the first job and the value of the
\* second is still in the channel
C23_Witness ==
    /\ op = "get_results"
    /\ cpc = "ready"
    /\ ret = ThreadPanic("boom")
    /\ taken = 1
    /\ Len(result_queue) = 1
    /\ result_queue[1].res = Ok(2)

CeilDiv(a, b) == (a + b - 1) \div b
Min(a, b) == IF a <= b THEN a ELSE b

\* the i-th of the contiguous pieces of length c of d (the last may be shorter)
Piece(d, c, i) == SubSeq(d, (i - 1) * c + 1, Min(i * c, Len(d)))

\* the driver is past the sort round
SortRoundOver == cpc \in {"loop", "submit_merge", "recv_merge", "joining", "dropped"}

\* C24: with chunk size c >= 1 (and a pool that could be built) an input of
\* length L is cut into K = ceil(L / c) contiguous chunks, each of length c
\* except possibly a shorter last one; the i-th job submitted is the sort of
\* the i-th chunk; and when the merge phase begins exactly K sort jobs were
\* submitted, and exactly K outcomes, theirs, were received.
C24_ChunkingAndSortRound ==
    (ValidArgs /\ cpc # "sort_entry") =>
        LET K == CeilDiv(Len(data), chunk_size)
        IN  /\ num_chunks = K
            /\ Len(chunks) + Cardinality(SortJobs) = K
            /\ \A j \in SortJobs :
                  /\ j <= K
                  /\ submitted[j] = SortJob(Piece(data, chunk_size, j))
                  /\ Len(submitted[j].chunk) \in 1..chunk_size
                  /\ j < K => Len(submitted[j].chunk) = chunk_size
            /\ cpc \in {"submit_sort", "recv_sort"} =>
                  (MergeJobs = {} /\ taken < K /\ Len(sorted_chunks) = taken)
            /\ SortRoundOver =>
                  /\ SortJobs = 1..K
                  /\ taken >= K
                  /\ Len(received) >= K
                  /\ {received[i] : i \in 1..K} = 1..K
            /\ (cpc = "loop" /\ round = 0) =>
                  (taken = K /\ Len(sorted_chunks) = K /\ MergeJobs = {})

\* three elements in chunks of two: two chunks, the last one shorter, both
\* sorted and received, the merge phase about to begin
C24_Witness ==
    /\ cpc = "loop"
    /\ round = 0
    /\ Len(data) = 3
    /\ chunk_size = 2
    /\ num_chunks = 2
    /\ submitted = <<SortJob(SubSeq(data, 1, 2)), SortJob(SubSeq(data, 3, 3))>>
    /\ taken = 2
    /\ Len(sorted_chunks) = 2

\* the number of chunks the driver holds when merge round r begins
RECURSIVE ChunksAtRound(_)
ChunksAtRound(r) == IF r <= 1 THEN num_chunks ELSE CeilDiv(ChunksAtRound(r - 1), 2)

\* the merge jobs of the rounds before round r
RECURSIVE MergesBefore(_)
MergesBefore(r) ==
    IF r <= 1 THEN 0 ELSE MergesBefore(r - 1) + ChunksAtRound(r - 1) \div 2

InMergeRound == cpc \in {"submit_merge", "recv_merge"}

\* C25: a merge round entered with m > 1 chunks submits exactly floor(m/2)
\* merge jobs and receives exactly that many outcomes; when m is odd exactly
\* one chunk, the last, is set aside and reaches the next round unchanged,
\* when m is even none is; each merge job takes the two chunks at the front,
\* which leave the driver's list, so no chunk is used by two jobs.
C25_MergeRound ==
    /\ [][DRound =>
             /\ Len(sorted_chunks) = ChunksAtRound(round')
             /\ Len(sorted_chunks) > 1
             /\ num_pairs' = Len(sorted_chunks) \div 2
             /\ remaining_chunks' = IF Len(sorted_chunks) % 2 = 1
                                    THEN <<Last(sorted_chunks)>> ELSE <<>>
             /\ sorted_chunks' = SubSeq(sorted_chunks, 1, 2 * num_pairs')]_vars
    /\ [][DSubmitMerge =>
             /\ submitted' = Append(submitted, MergeJob(sorted_chunks[1], sorted_chunks[2]))
             /\ sorted_chunks' = SubSeq(sorted_chunks, 3, Len(sorted_chunks))
             /\ UNCHANGED remaining_chunks]_vars
    /\ [](InMergeRound =>
             LET m == ChunksAtRound(round)
                 carried == m % 2
                 done == Cardinality(MergeJobs) - MergesBefore(round)
             IN  /\ num_pairs = m \div 2
                 /\ cpc = "submit_merge" =>
                       /\ done = num_pairs - todo
                       /\ Len(sorted_chunks) = 2 * todo
                       /\ Len(remaining_chunks) = carried
                 /\ cpc = "recv_merge" =>
                       /\ done = num_pairs
                       /\ sorted_chunks = <<>>
                       /\ Len(remaining_chunks) = carried + (num_pairs - todo)
                       /\ taken = num_chunks + MergesBefore(round) + (num_pairs - todo))
    /\ [][(InMergeRound /\ remaining_chunks # <<>> /\ ~Panicking') =>
             Head(remaining_chunks) =
                 Head(IF cpc' = "loop" THEN sorted_chunks' ELSE remaining_chunks')]_vars
    /\ []((cpc = "loop" /\ round >= 1) =>
             /\ Len(sorted_chunks) = CeilDiv(ChunksAtRound(round), 2)
             /\ Cardinality(MergeJobs) = MergesBefore(round + 1)
             /\ taken = num_chunks + MergesBefore(round + 1))

\* the first merge round of three chunks is collecting: one merge job was
\* submitted and the third chunk is set aside
C25_Witness ==
    /\ cpc = "recv_merge"
    /\ round = 1
    /\ num_chunks = 3
    /\ num_pairs = 1
    /\ Cardinality(MergeJobs) = 1
    /\ Len(remaining_chunks) = 1
    /\ ~IsSorted(data)

\* the merge rounds a sort of k chunks takes
RECURSIVE RoundsFor(_)
RoundsFor(k) == IF k <= 1 THEN 0 ELSE 1 + RoundsFor(CeilDiv(k, 2))

\* C26: every merge round is entered with m > 1 chunks and left with
\* ceil(m / 2) < m chunks, so the rounds are bounded by the number of chunks;
\* for a non-empty input the loop is left with exactly one chunk, after
\* exactly the rounds that halving K takes, and that chunk is the output.
C26_ChunksShrink ==
    /\ [](round >= 1 => ChunksAtRound(round) > 1)
    /\ [][(cpc = "recv_merge" /\ cpc' = "loop") =>
             /\ Len(sorted_chunks') = CeilDiv(ChunksAtRound(round), 2)
             /\ Len(sorted_chunks') < ChunksAtRound(round)
             /\ Len(sorted_chunks') >= 1]_vars
    /\ [](round <= RoundsFor(num_chunks))
    /\ [][(DFinish /\ data # <<>>) =>
             /\ Len(sorted_chunks) = 1
             /\ round = RoundsFor(num_chunks)
             /\ output' = sorted_chunks[1]
             /\ sorted_chunks' = <<>>]_vars
    /\ []((Returned /\ data # <<>>) =>
             (sorted_chunks = <<>> /\ Len(output) = Len(data)))

\* the test's six elements in chunks of one: six chunks became three, two and
\* one in three rounds, and the one was returned
C26_Witness ==
    /\ Returned
    /\ data = TestData
    /\ num_chunks = 6
    /\ round = 3
    /\ output = <<1, 2, 5, 5, 6, 9>>

RECURSIVE Flatten(_)
Flatten(ss) == IF ss = <<>> THEN <<>> ELSE Head(ss) \o Flatten(Tail(ss))

\* the elements a job carries: the chunk to sort, or the two chunks to merge
JobElems(body) ==
    IF body.kind = "sort" THEN body.chunk
    ELSE IF body.kind = "merge" THEN body.left \o body.right
    ELSE <<>>

\* the elements on their way through the pool: in queued jobs, in the jobs
\* the workers hold, and in the outcomes not yet received
ElemsInPool ==
    Flatten([i \in 1..Len(job_queue) |-> JobElems(job_queue[i].body)])
        \o Flatten([w \in Workers |-> IF wjob[w] = None THEN <<>> ELSE JobElems(wjob[w].body)])
        \o Flatten([i \in 1..Len(result_queue) |-> result_queue[i].res.val])

\* the elements of the chunks the driver holds
ElemsHeld == Flatten(chunks) \o Flatten(sorted_chunks) \o Flatten(remaining_chunks)

\* the driver is at a round boundary
RoundBoundary == cpc = "loop"

\* C27: at every round boundary of parallel_merge_sort (after the sort round
\* and after each merge round) the chunks the driver holds are all sorted,
\* their lengths add up to the input length and their elements are the
\* multiset of the input; between the boundaries the same holds of the
\* chunks held together with those travelling through the pool.
C27_ElementsPreserved ==
    /\ RoundBoundary =>
          /\ Sum([i \in 1..Len(sorted_chunks) |-> Len(sorted_chunks[i])]) = Len(data)
          /\ SameMultiset(Flatten(sorted_chunks), data)
          /\ \A i \in 1..Len(sorted_chunks) : IsSorted(sorted_chunks[i])
          /\ remaining_chunks = <<>>
          /\ chunks = <<>>
          /\ ElemsInPool = <<>>
    /\ cpc \in {"submit_sort", "recv_sort", "loop", "submit_merge", "recv_merge"} =>
          /\ Len(ElemsHeld) + Len(ElemsInPool) = Len(data)
          /\ SameMultiset(ElemsHeld \o ElemsInPool, data)

\* the boundary after the first merge round of three chunks: the chunk set
\* aside and the merged chunk hold the three elements
C27_Witness ==
    /\ RoundBoundary
    /\ round = 1
    /\ num_chunks = 3
    /\ Len(sorted_chunks) = 2
    /\ Len(sorted_chunks[1]) = 1
    /\ Len(sorted_chunks[2]) = 2
    /\ ~IsSorted(data)

\* the driver is in a call of recv_result
DriverWaits == cpc \in {"recv_sort", "recv_merge"}

\* the driver is about to submit a job
DriverSubmits == cpc \in {"submit_sort", "submit_merge"}

\* the jobs submitted whose outcome the driver has not received
Owed == JobIds \ Range(received)

\* C28: for every bounded input, chunk size >= 1 and worker count >= 1,
\* fewer workers than jobs in a round included, parallel_merge_sort
\* terminates under fair scheduling: it returns and does not panic.  The
\* driver never blocks forever on recv_result: submission never blocks (a
\* submitting driver can always take its step, whatever the workers do and
\* however many jobs are queued), a waiting driver is owed an outcome and
\* gets to its next step, and every submitted job is eventually executed and
\* its outcome delivered to the driver.
C28_SortTerminates ==
    /\ ValidArgs ~> Returned
    /\ [](ValidArgs => ~Panicking)
    /\ [](DriverSubmits => (ENABLED DSubmitSort \/ ENABLED DSubmitMerge))
    /\ [](DriverWaits => Owed # {} /\ Live # {})
    /\ DriverWaits ~> ~DriverWaits
    /\ []<>(Owed = {})
    /\ [](\A j \in JobIds \ Owed : sent[j] = 1)

\* a sort of three chunks by one worker has returned: both jobs of the rounds
\* with more jobs than workers were served
C28_Witness ==
    /\ Returned
    /\ num_threads = 1
    /\ num_chunks = 3
    /\ Len(received) = 5
    /\ Owed = {}
    /\ IsSorted(output)
    /\ Len(output) = 3

\* merge has returned
MergeReturned == cpc = "merge_ret"

\* C29: merge(left, right) on two sorted sequences returns a sorted sequence
\* whose length is len(left) + len(right) and whose multiset is the union of
\* both inputs; whenever the current heads are equal, the element from left
\* is emitted first: the turn of the loop pushes left's head and advances
\* left_iter alone.  What the loop returns is what the operator merge, which
\* the merge jobs of the pool run, computes.
C29_MergeSortedStable ==
    /\ [](MergeReturned /\ IsSorted(merge_left) /\ IsSorted(merge_right) =>
             /\ IsSorted(result)
             /\ Len(result) = Len(merge_left) + Len(merge_right)
             /\ SameMultiset(result, merge_left \o merge_right))
    /\ [](MergeReturned => result = merge(merge_left, merge_right))
    /\ [][MergeStep /\ Head(left_iter) = Head(right_iter) =>
             /\ result' = Append(result, Head(left_iter))
             /\ left_iter' = Tail(left_iter)
             /\ right_iter' = right_iter]_vars

\* merge([1,2,2], [2,2]) has returned: the heads were equal on the way
C29_Witness ==
    /\ MergeReturned
    /\ merge_left = <<1, 2, 2>>
    /\ merge_right = <<2, 2>>
    /\ result = <<1, 2, 2, 2, 2>>

\* merge_sort has returned
MergeSortReturned == cpc = "merge_sort_ret"

\* C30: the sequential merge_sort sorts its slice in place for every input,
\* the empty and the single-element slice included: afterwards the slice has
\* its length, is non-decreasing and is a permutation of its original
\* content; [5,2,9,1,5,6] becomes [1,2,5,5,6,9].
C30_MergeSortSorts ==
    MergeSortReturned =>
        /\ Len(sort_arr) = Len(sort_arr_before)
        /\ IsSorted(sort_arr)
        /\ SameMultiset(sort_arr, sort_arr_before)
        /\ Len(sort_arr_before) <= 1 => sort_arr = sort_arr_before
        /\ sort_arr_before = TestData => sort_arr = <<1, 2, 5, 5, 6, 9>>

C30_Witness ==
    /\ MergeSortReturned
    /\ sort_arr_before = TestData
    /\ sort_arr = <<1, 2, 5, 5, 6, 9>>

\* the message the claim gives a panic payload
MessageOf(payload) ==
    IF payload.type \in {"&str", "String"} THEN payload.text ELSE "Unknown panic"

\* the jobs submitted that panic
PanicJobs == {j \in JobIds : submitted[j].kind = "panic"}

\* C31: the ThreadPanic message is derived from the type of the panic
\* payload: a string-literal payload and an owned-string payload both yield
\* their own text, a payload of any other type yields "Unknown panic"; in all
\* three cases the worker that ran the job emits one ThreadPanic outcome with
\* that message, and that is the outcome of the job wherever it is buffered.
C31_PanicMessage ==
    /\ [](\A i \in 1..Len(result_queue) :
             result_queue[i].id \in PanicJobs =>
                 result_queue[i].res =
                     [tag |-> "Err", kind |-> "ThreadPanic",
                      msg |-> MessageOf(submitted[result_queue[i].id].payload)])
    /\ [][\A w \in Workers :
             (Exec(w) /\ wjob[w].body.kind = "panic" /\ result_receiver = "alive") =>
                 /\ Len(result_queue') = Len(result_queue) + 1
                 /\ Last(result_queue').id = wjob[w].id
                 /\ Last(result_queue').res.tag = "Err"
                 /\ Last(result_queue').res.kind = "ThreadPanic"
                 /\ Last(result_queue').res.msg = MessageOf(wjob[w].body.payload)]_vars

\* an owned-string panic and a panic of another type have both been
\* reported: one with its text, the other with the default text
C31_Witness ==
    /\ Len(result_queue) = 2
    /\ \E i, k \in 1..2 :
          /\ submitted[result_queue[i].id] = Panic([type |-> "String", text |-> "boom"])
          /\ result_queue[i].res = ThreadPanic("boom")
          /\ submitted[result_queue[k].id] = Panic([type |-> "other", text |-> ""])
          /\ result_queue[k].res = ThreadPanic("Unknown panic")

\* the private field job_sender was replaced from outside the public
\* operations, as test_dropped_sender does
SenderReplaced == job_sender = "Dummy"

\* C32: using only the public operations (new, execute, get_results,
\* recv_result) on a pool that has not been dropped, execute() never returns
\* SendError: it returns Ok(()) and the job is queued.  Such a pool has its
\* sender (the sender is None only before new() and inside drop()), and the
\* job receiver stays alive because no worker exits, by return or by panic,
\* while the sender exists.
C32_ExecuteNeverFails ==
    /\ [][Execute /\ ~SenderReplaced =>
             /\ ret' = OkUnit
             /\ job_queue' = Append(job_queue, [id |-> Len(submitted) + 1,
                                                body |-> Last(submitted')])]_vars
    /\ [](op = "execute" /\ ret = SendError => SenderReplaced)
    /\ [](job_sender = "None" => cpc = "init" \/ op \in {"new", "drop"})
    /\ [](cpc \in {"ready", "get_results", "recv_result"} /\ ~SenderReplaced =>
             job_sender = "Some")
    /\ [](job_sender = "Some" =>
             /\ Spawned # {}
             /\ Live = Spawned
             /\ JobReceiverAlive)

\* a job panicked and its failure was received; the execute() after it
\* succeeded all the same
C32_Witness ==
    /\ cpc = "ready"
    /\ op = "execute"
    /\ ret = OkUnit
    /\ Len(submitted) = MaxJobs
    /\ submitted[1].kind = "panic"
    /\ sent[1] = 1
    /\ taken = 1
    /\ job_sender = "Some"

\* no job is queued or held by a worker, and no outcome is buffered
Quiescent ==
    /\ job_queue = <<>>
    /\ result_queue = <<>>
    /\ \A w \in Workers : wjob[w] = None

\* C33: when parallel_merge_sort returns normally, its pool is quiescent and
\* torn down: the task queue is empty, no outcome is left unreceived in the
\* result channel (every job submitted was run once and its outcome
\* received: jobs submitted = outcomes received), and every worker thread of
\* that invocation, num_threads of them, has exited and been joined.  The
\* pool is quiescent already when the returned Vec is taken, before drop()
\* joins the workers.
C33_ReturnsQuiescent ==
    /\ Returned =>
          /\ Quiescent
          /\ Len(received) = Len(submitted)
          /\ Range(received) = JobIds
          /\ taken = Len(submitted)
          /\ \A j \in JobIds : claimed[j] = 1 /\ sent[j] = 1
          /\ Spawned = 1..num_threads
          /\ num_threads >= 1
          /\ \A w \in Spawned : wpc[w] = "exited"
          /\ threads = <<>>
          /\ lock = 0
          /\ job_sender = "None"
          /\ result_receiver = "dropped"
    /\ cpc = "joining" =>
          /\ Quiescent
          /\ Range(received) = JobIds
          /\ Len(received) = Len(submitted)

\* five jobs went through a pool of MaxThreads workers, and the sort has
\* returned
C33_Witness ==
    /\ Returned
    /\ num_threads = MaxThreads
    /\ Len(submitted) = 5
    /\ Len(received) = 5
    /\ Len(output) = 3
    /\ \A w \in Workers : wpc[w] = "exited"

=============================================================================
